---- MODULE Spec2Model ----
(***************************************************************************)
(* The HeartIO Python reporter (src/app-python/src/main.py): a BLE scanner *)
(* whose detection callback filters advertisements per source, decodes the *)
(* heart rate from the manufacturer data and forwards it over HTTP, and    *)
(* the start/stop lifecycle of main() around it; and the export script     *)
(* (src/graph/scripts/export.py), which dumps the recent rows of the       *)
(* heart_rate table.                                                       *)
(*                                                                         *)
(* Time is counted in half seconds, so that two events can lie less than   *)
(* one second apart without being simultaneous.                            *)
(***************************************************************************)
EXTENDS Integers, Sequences, FiniteSets, TLC

\* ------------------------------------------------------------- bounds
\* time.time() values the clock may return: 0 .. MaxTime half seconds
MaxTime == 4
\* termination signals delivered in one run
MaxSignals == 2
\* rows of the heart_rate table when export.py runs
MaxRows == 3
\* created_at values: up to MaxSkew half seconds before or after the instant
\* HOURS hours before the earliest run
MaxSkew == 2

\* ------------------------------------------------- program constants
\* main.py:31  "< 1": the suppression window, one second, in half seconds
Window == 2
\* main.py:31  last_seen.get(addr, 0): the timestamp assumed for an unknown source
DefaultLastSeen == 0
\* main.py:39  len(value) >= 4
MinPayloadLen == 4
\* main.py:40  value[3], zero-indexed
HeartRateOffset == 3
\* export.py:8  HOURS = 5
HOURS == 5

\* ------------------------------------------------------------- inputs
Addrs == {"A", "B"}
Times == 0..MaxTime

\* device.name: absent (None) or a string, modelled as its sequence of words
NoName == [present |-> FALSE, words |-> <<>>]
Names ==
    { NoName,
      [present |-> TRUE, words |-> <<"Mi", "Band">>],
      [present |-> TRUE, words |-> <<"Xiaomi", "Smart", "Band", "8">>] }

\* main.py:35  the substring looked for in the name
TargetName == <<"Xiaomi", "Smart", "Band">>

\* manufacturer_data values: byte strings
Payloads ==
    { <<>>,
      <<1, 2, 72>>,
      <<1, 2, 3, 0>>,
      <<1, 2, 3, 72>>,
      <<72, 0, 9, 72>>,
      <<9, 9, 255, 80, 72>>,
      <<0, 0, 0, 255>> }

\* manufacturer_data: the values of the mapping in iteration order (the keys
\* are never read, main.py:38); <<>> is the empty or absent mapping
MDatas ==
    {<<>>} \cup { <<p>> : p \in Payloads }
           \cup { << <<1, 2, 72>>, <<1, 2, 3, 72>> >>,
                  << <<1, 2, 3, 0>>, <<0, 0, 0, 255>> >>,
                  << <<1, 2, 3, 72>>, <<9, 9, 255, 80, 72>> >> }

\* the outcome of requests.get: a status code, or a RequestException
Outcomes == {"200", "500", "RequestException"}

\* ------------------------------------------------------------- state
VARIABLES
    pc,             \* where main() is: boot, check_start, check_stop, start, wait, stop, exited
    stop_scanning,  \* the asyncio.Event stop_scanning
    nsignals,       \* signals delivered so far
    stop_in,        \* the state of the scan session when the first signal came, "none" before
    probe,          \* receiving session of test_scanner (check_bluetooth_availability)
    session,        \* receiving session of scanner (main): Unstarted, Active, Stopped
    nstops,         \* completed scanner.stop() calls on the main scanner
    pending,        \* an exception is propagating through main()'s finally
    err,            \* which failure ended the run, "none" if none
    exit_code,      \* -1 while the process runs, then its exit status
    last_seen,      \* the dict last_seen: address -> last accepted timestamp
    cb_pc,          \* where handle_advertisement is: idle (not running) or loop (main.py:38)
    todo,           \* the manufacturer data values the loop has still to visit
    ev,             \* the event being handled, or handled last
    samples,        \* heart rates decoded from ev so far (main.py:40)
    logs,           \* the lines handle_advertisement has printed for ev
    requests,       \* requests issued for ev so far (main.py:17)
    heart_rate,     \* export.py: the rows of the table heart_rate, in rowid order
    utcnow,         \* export.py:10  datetime.utcnow(), in half seconds since the epoch
    results,        \* export.py:25-28  the list dumped to OUTPUT_FILE
    export_pc       \* export.py: "off" (not run), "ready" (about to run), "done"

export == << heart_rate, utcnow, results, export_pc >>

vars == << pc, stop_scanning, nsignals, stop_in, probe, session, nstops, pending, err,
           exit_code, last_seen, cb_pc, todo, ev, samples, logs, requests, export >>

ctl == << pc, stop_scanning, nsignals, stop_in, probe, session, nstops, pending, err, exit_code >>
pipeline == << last_seen, cb_pc, todo, ev, samples, logs, requests >>

\* no event handled yet
NoEvent ==
    [ addr |-> "none", t |-> 0, name |-> NoName, mdata |-> <<>>,
      accepted |-> FALSE, after_failure |-> FALSE, after_quiet |-> FALSE ]

\* ------------------------------------------------------------ helpers
\* dict.get(k, default)
Get(d, k, default) == IF k \in DOMAIN d THEN d[k] ELSE default

\* d[k] = v
Put(d, k, v) == [a \in (DOMAIN d) \cup {k} |-> IF a = k THEN v ELSE d[a]]

\* sub in s
Contains(sub, s) ==
    \E i \in 1..(Len(s) - Len(sub) + 1) : SubSeq(s, i, i + Len(sub) - 1) = sub

\* getattr(device, "name", "") or ""
NameOrEmpty(n) == IF n.present THEN n.words ELSE <<>>

\* mutant: the distance to the recorded timestamp is taken in both directions
SuppressedAbs(seen, addr, now) ==
    LET d == now - Get(seen, addr, DefaultLastSeen)
    IN  d < Window /\ 0 - d < Window

\* main.py:31  the event is dropped
Suppressed(seen, addr, now) == now - Get(seen, addr, DefaultLastSeen) < Window

\* main.py:35
NameMatches(n) == Contains(TargetName, NameOrEmpty(n))

\* main.py:39
Qualifies(value) == Len(value) >= MinPayloadLen

\* mutant: the offset taken as one-indexed
HeartRateOffByOne(value) == value[HeartRateOffset]

\* main.py:40  value[3]
HeartRate(value) == value[HeartRateOffset + 1]

\* mutant: the test is bpm >= 0, a zero is sent as well
ForwardsZero(bpm) == bpm >= 0

\* main.py:15  the request is made
Forwards(bpm) == bpm > 0

\* mutant: a failed request is sent again
SendToOscRetry(reqs, bpm, outcome) ==
    IF bpm > 0
       THEN IF outcome = "200"
               THEN Append(reqs, [bpm |-> bpm, outcome |-> outcome])
               ELSE reqs \o << [bpm |-> bpm, outcome |-> outcome], [bpm |-> bpm, outcome |-> "200"] >>
       ELSE reqs

\* send_to_osc(bpm) with the outcome the collector gives: the requests after it
SendToOsc(reqs, bpm, outcome) ==
    IF Forwards(bpm) THEN Append(reqs, [bpm |-> bpm, outcome |-> outcome]) ELSE reqs

\* main.py:18-25  the line send_to_osc prints for a request with this outcome
OutcomeLog(outcome) ==
    IF outcome = "200" THEN "sent"
    ELSE IF outcome = "RequestException" THEN "error" ELSE "failed"

\* main.py:39-44, 15-25  the lines printed for one value of the manufacturer data
ValueLog(value, outcome) ==
    IF Qualifies(value)
       THEN IF Forwards(HeartRate(value))
               THEN << "received", OutcomeLog(outcome) >>
               ELSE << "received" >>
       ELSE << "too_short" >>

\* main.py:37, 45-46  the line printed when the manufacturer data is empty
NoDataLog(mdata) == IF mdata = << >> THEN << "no_data" >> ELSE << >>

\* the event handled last ended in a failure local to it
LastFailed ==
    \/ \E i \in 1..Len(requests) : requests[i].outcome # "200"
    \/ ev.accepted /\ NameMatches(ev.name) /\ \E i \in 1..Len(ev.mdata) : ~Qualifies(ev.mdata[i])

\* the event handled last was an accepted event of this source that gave no
\* request
LastQuiet(addr) == ev.accepted /\ ev.addr = addr /\ requests = << >>

\* mutant: callbacks and main() run without waiting for the handler in progress
LoopFreeAlways == TRUE

\* the event loop is free to run main() or a scheduled callback
LoopFree == cb_pc = "idle"

Running == pc # "exited"

\* ------------------------------------------------------------- Init
Init ==
    /\ pc = "boot"
    /\ stop_scanning = FALSE
    /\ nsignals = 0
    /\ stop_in = "none"
    /\ probe = "Unstarted"
    /\ session = "Unstarted"
    /\ nstops = 0
    /\ pending = FALSE
    /\ err = "none"
    /\ exit_code = -1
    /\ last_seen = << >>
    /\ cb_pc = "idle"
    /\ todo = << >>
    /\ ev = NoEvent
    /\ samples = << >>
    /\ logs = << >>
    /\ requests = << >>
    /\ heart_rate = << >>
    /\ utcnow = 0
    /\ results = << >>
    /\ export_pc = "off"

\* ------------------------------------------------- the shutdown hook
\* mutant: the signal toggles the flag
ToggleFlag(flag) == ~flag

\* mutant: shutdown() prints its message and forgets to set the event
KeepFlag(flag) == flag

\* main.py:107  stop_scanning.set()
SetFlag(flag) == TRUE

\* main.py:105-107, 112-116  shutdown(), run for one SIGINT or SIGTERM.
\* Hooked with signal.signal it runs wherever the signal arrives, also
\* inside handle_advertisement; hooked with add_signal_handler it runs as a
\* callback of the event loop, which is the same as a later arrival.
Shutdown ==
    /\ Running
    /\ pc # "boot"
    /\ nsignals < MaxSignals
    /\ stop_scanning' = SetFlag(stop_scanning)
    /\ nsignals' = nsignals + 1
    /\ stop_in' = IF stop_in = "none" THEN session ELSE stop_in
    /\ UNCHANGED << pc, probe, session, nstops, pending, err, exit_code >>
    /\ UNCHANGED pipeline
    /\ UNCHANGED export

\* ------------------------------------------------------------ main()
\* mutant: the failure paths return instead of calling sys.exit(1)
ExitStatusZero(failed) == 0

\* mutant: sys.exit(1) is reached on the clean path as well
ExitStatusOne(failed) == 1

\* main.py:82, 99, 102: sys.exit(1) after a failure; a plain return otherwise
ExitStatus(failed) == IF failed THEN 1 ELSE 0

\* main.py:110-119, 66-80, 53-54: the hooks are installed, main() starts
\* and awaits test_scanner.start()
Boot ==
    /\ pc = "boot"
    /\ pc' = "check_start"
    /\ UNCHANGED << stop_scanning, nsignals, stop_in, probe, session, nstops, pending, err, exit_code >>
    /\ UNCHANGED pipeline
    /\ UNCHANGED export

\* mutant: the failed check is reported but main() goes on to the scanner
AfterCheckFailedGoesOn == "start"

\* main.py:80-82  where main() goes when the availability check has failed
AfterCheckFailed == "exited"

\* mutant: the probe scanner is left running
AfterProbeStartedSkipsStop == "start"

\* main.py:54-55  after test_scanner.start(): test_scanner.stop() is awaited
AfterProbeStarted == "check_stop"

\* main.py:54  test_scanner.start() returns
CheckStartOk ==
    /\ pc = "check_start"
    /\ LoopFree
    /\ probe' = "Active"
    /\ pc' = AfterProbeStarted
    /\ UNCHANGED << stop_scanning, nsignals, stop_in, session, nstops, pending, err, exit_code >>
    /\ UNCHANGED pipeline
    /\ UNCHANGED export

\* main.py:53-54, 57-62, 80-82  BleakScanner() or start() raises: the check
\* returns False and main() exits 1
CheckStartFail ==
    /\ pc = "check_start"
    /\ LoopFree
    /\ pc' = AfterCheckFailed
    /\ err' = "unavailable"
    /\ exit_code' = ExitStatus(TRUE)
    /\ UNCHANGED << stop_scanning, nsignals, stop_in, probe, session, nstops, pending >>
    /\ UNCHANGED pipeline
    /\ UNCHANGED export

\* main.py:55-56, 84-88  test_scanner.stop() returns: the check returns True,
\* the scanner with the detection callback is made and scanner.start() awaited
CheckStopOk ==
    /\ pc = "check_stop"
    /\ LoopFree
    /\ probe' = "Stopped"
    /\ pc' = "start"
    /\ UNCHANGED << stop_scanning, nsignals, stop_in, session, nstops, pending, err, exit_code >>
    /\ UNCHANGED pipeline
    /\ UNCHANGED export

\* main.py:55, 57-62, 80-82  test_scanner.stop() raises
CheckStopFail ==
    /\ pc = "check_stop"
    /\ LoopFree
    /\ pc' = AfterCheckFailed
    /\ err' = "unavailable"
    /\ exit_code' = ExitStatus(TRUE)
    /\ UNCHANGED << stop_scanning, nsignals, stop_in, probe, session, nstops, pending >>
    /\ UNCHANGED pipeline
    /\ UNCHANGED export

\* main.py:91  stop_scanning.wait() returns at once when the event is set
AfterStart(flag) == IF flag THEN "stop" ELSE "wait"

\* main.py:88-91  scanner.start() returns
ScanStartOk ==
    /\ pc = "start"
    /\ LoopFree
    /\ session' = "Active"
    /\ pc' = AfterStart(stop_scanning)
    /\ UNCHANGED << stop_scanning, nsignals, stop_in, probe, nstops, pending, err, exit_code >>
    /\ UNCHANGED pipeline
    /\ UNCHANGED export

\* main.py:88, 96-102  scanner.start() raises, outside the inner try
ScanStartFail ==
    /\ pc = "start"
    /\ LoopFree
    /\ pc' = "exited"
    /\ err' = "start_failed"
    /\ exit_code' = ExitStatus(TRUE)
    /\ UNCHANGED << stop_scanning, nsignals, stop_in, probe, session, nstops, pending >>
    /\ UNCHANGED pipeline
    /\ UNCHANGED export

\* mutant: the wait returns although the event is not set
WaitReturnsSpurious ==
    /\ pc = "wait"
    /\ LoopFree
    /\ pc' = "stop"
    /\ UNCHANGED << stop_scanning, nsignals, stop_in, probe, session, nstops, pending, err, exit_code >>
    /\ UNCHANGED pipeline
    /\ UNCHANGED export

\* main.py:91-94  the wait returns once the event is set; the finally
\* block awaits scanner.stop()
WaitReturns ==
    /\ pc = "wait"
    /\ LoopFree
    /\ stop_scanning
    /\ pc' = "stop"
    /\ UNCHANGED << stop_scanning, nsignals, stop_in, probe, session, nstops, pending, err, exit_code >>
    /\ UNCHANGED pipeline
    /\ UNCHANGED export

\* main.py:90-94  an exception is raised into main() at the wait; the
\* finally block awaits scanner.stop() with the exception pending
WaitRaises ==
    /\ pc = "wait"
    /\ LoopFree
    /\ pending' = TRUE
    /\ pc' = "stop"
    /\ UNCHANGED << stop_scanning, nsignals, stop_in, probe, session, nstops, err, exit_code >>
    /\ UNCHANGED pipeline
    /\ UNCHANGED export

\* mutant: scanner.stop() completes without waiting for the callback in progress
ScanStopOkAnytime ==
    /\ pc = "stop"
    /\ session' = "Stopped"
    /\ nstops' = nstops + 1
    /\ pc' = "exited"
    /\ err' = IF pending THEN "fatal" ELSE "none"
    /\ exit_code' = ExitStatus(pending)
    /\ UNCHANGED << stop_scanning, nsignals, stop_in, probe, pending >>
    /\ UNCHANGED pipeline
    /\ UNCHANGED export

\* main.py:94-102, 119-127  scanner.stop() returns; a pending exception
\* reaches the except clauses (exit 1), otherwise main() returns (exit 0)
ScanStopOk ==
    /\ pc = "stop"
    /\ LoopFree
    /\ session' = "Stopped"
    /\ nstops' = nstops + 1
    /\ pc' = "exited"
    /\ err' = IF pending THEN "fatal" ELSE "none"
    /\ exit_code' = ExitStatus(pending)
    /\ UNCHANGED << stop_scanning, nsignals, stop_in, probe, pending >>
    /\ UNCHANGED pipeline
    /\ UNCHANGED export

\* main.py:94, 96-102  scanner.stop() raises: the session is not released
\* by a completed stop call
ScanStopFail ==
    /\ pc = "stop"
    /\ LoopFree
    /\ pc' = "exited"
    /\ err' = "stop_failed"
    /\ exit_code' = ExitStatus(TRUE)
    /\ UNCHANGED << stop_scanning, nsignals, stop_in, probe, session, nstops, pending >>
    /\ UNCHANGED pipeline
    /\ UNCHANGED export

\* ---------------------------------------------- handle_advertisement
\* main.py:33  last_seen[addr] = now
Record(seen, addr, now) == Put(seen, addr, now)

\* The scanner calls handle_advertisement(device, advertisement_data) while
\* its session is active and the event loop is free.  ev records the event
\* as far as the code reads it: the address and the clock always, the name
\* when the event is accepted (main.py:34), the manufacturer data when the
\* name matches (main.py:36).
CanDeliver == Running /\ session = "Active" /\ LoopFree

\* mutant: the timestamp is recorded before the test, for a suppressed event too
DropRecords(addr, now) ==
    /\ CanDeliver
    /\ Suppressed(last_seen, addr, now)
    /\ last_seen' = Record(last_seen, addr, now)
    /\ ev' = [ addr |-> addr, t |-> now, name |-> NoName, mdata |-> << >>,
               accepted |-> FALSE, after_failure |-> LastFailed,
               after_quiet |-> LastQuiet(addr) ]
    /\ samples' = << >>
    /\ logs' = << >>
    /\ requests' = << >>
    /\ todo' = << >>
    /\ UNCHANGED cb_pc
    /\ UNCHANGED ctl
    /\ UNCHANGED export

\* main.py:28-32  the event is suppressed: nothing else happens
Drop(addr, now) ==
    /\ CanDeliver
    /\ Suppressed(last_seen, addr, now)
    /\ ev' = [ addr |-> addr, t |-> now, name |-> NoName, mdata |-> << >>,
               accepted |-> FALSE, after_failure |-> LastFailed,
               after_quiet |-> LastQuiet(addr) ]
    /\ samples' = << >>
    /\ logs' = << >>
    /\ requests' = << >>
    /\ todo' = << >>
    /\ UNCHANGED << last_seen, cb_pc >>
    /\ UNCHANGED ctl
    /\ UNCHANGED export

\* mutant: the timestamp is recorded only once the name has matched
AcceptOtherNoRecord(addr, now, name) ==
    /\ CanDeliver
    /\ ~Suppressed(last_seen, addr, now)
    /\ ~NameMatches(name)
    /\ ev' = [ addr |-> addr, t |-> now, name |-> name, mdata |-> << >>,
               accepted |-> TRUE, after_failure |-> LastFailed,
               after_quiet |-> LastQuiet(addr) ]
    /\ samples' = << >>
    /\ logs' = << >>
    /\ requests' = << >>
    /\ todo' = << >>
    /\ UNCHANGED << last_seen, cb_pc >>
    /\ UNCHANGED ctl
    /\ UNCHANGED export

\* main.py:28-35  the event is accepted and its name does not match
AcceptOther(addr, now, name) ==
    /\ CanDeliver
    /\ ~Suppressed(last_seen, addr, now)
    /\ ~NameMatches(name)
    /\ last_seen' = Record(last_seen, addr, now)
    /\ ev' = [ addr |-> addr, t |-> now, name |-> name, mdata |-> << >>,
               accepted |-> TRUE, after_failure |-> LastFailed,
               after_quiet |-> LastQuiet(addr) ]
    /\ samples' = << >>
    /\ logs' = << >>
    /\ requests' = << >>
    /\ todo' = << >>
    /\ UNCHANGED cb_pc
    /\ UNCHANGED ctl
    /\ UNCHANGED export

\* main.py:28-38, 45-46  the event is accepted and its name matches: with
\* manufacturer data the loop over its values is entered
AcceptBand(addr, now, name, mdata) ==
    /\ CanDeliver
    /\ ~Suppressed(last_seen, addr, now)
    /\ NameMatches(name)
    /\ last_seen' = Record(last_seen, addr, now)
    /\ ev' = [ addr |-> addr, t |-> now, name |-> name, mdata |-> mdata,
               accepted |-> TRUE, after_failure |-> LastFailed,
               after_quiet |-> LastQuiet(addr) ]
    /\ samples' = << >>
    /\ logs' = NoDataLog(mdata)
    /\ requests' = << >>
    /\ todo' = mdata
    /\ cb_pc' = IF mdata # << >> THEN "loop" ELSE "idle"
    /\ UNCHANGED ctl
    /\ UNCHANGED export

\* mutant: a failed request ends the process (sys.exit(1) in send_to_osc)
LoopStepExitsOnFailure(outcome) ==
    /\ cb_pc = "loop"
    /\ logs' = logs \o ValueLog(Head(todo), outcome)
    /\ LET value == Head(todo)
           failed == Qualifies(value) /\ Forwards(HeartRate(value)) /\ outcome # "200"
       IN  /\ IF Qualifies(value)
                 THEN /\ samples' = Append(samples, HeartRate(value))
                      /\ requests' = SendToOsc(requests, HeartRate(value), outcome)
                 ELSE UNCHANGED << samples, requests >>
           /\ pc' = IF failed THEN "exited" ELSE pc
           /\ exit_code' = IF failed THEN 1 ELSE exit_code
    /\ todo' = Tail(todo)
    /\ cb_pc' = IF Tail(todo) = << >> THEN "idle" ELSE "loop"
    /\ UNCHANGED << last_seen, ev >>
    /\ UNCHANGED << stop_scanning, nsignals, stop_in, probe, session, nstops, pending, err >>
    /\ UNCHANGED export

\* mutant: the loop is left at the first value that gives nothing to send
LoopStepBreaks(outcome) ==
    /\ cb_pc = "loop"
    /\ logs' = logs \o ValueLog(Head(todo), outcome)
    /\ LET value == Head(todo)
           goes_on == Qualifies(value) /\ Forwards(HeartRate(value))
       IN  /\ IF Qualifies(value)
                 THEN /\ samples' = Append(samples, HeartRate(value))
                      /\ requests' = SendToOsc(requests, HeartRate(value), outcome)
                 ELSE UNCHANGED << samples, requests >>
           /\ todo' = IF goes_on THEN Tail(todo) ELSE << >>
           /\ cb_pc' = IF goes_on /\ Tail(todo) # << >> THEN "loop" ELSE "idle"
    /\ UNCHANGED << last_seen, ev >>
    /\ UNCHANGED ctl
    /\ UNCHANGED export

\* main.py:38-44, 13-25  one turn of the loop: a value of at least 4 bytes
\* gives a heart rate, which send_to_osc forwards with whatever outcome
LoopStep(outcome) ==
    /\ cb_pc = "loop"
    /\ logs' = logs \o ValueLog(Head(todo), outcome)
    /\ LET value == Head(todo) IN
          IF Qualifies(value)
             THEN /\ samples' = Append(samples, HeartRate(value))
                  /\ requests' = SendToOsc(requests, HeartRate(value), outcome)
             ELSE UNCHANGED << samples, requests >>
    /\ todo' = Tail(todo)
    /\ cb_pc' = IF Tail(todo) = << >> THEN "idle" ELSE "loop"
    /\ UNCHANGED << last_seen, ev >>
    /\ UNCHANGED ctl
    /\ UNCHANGED export

\* ------------------------------------------------------------- Next
Next ==
    \/ Boot
    \/ Shutdown
    \/ CheckStartOk
    \/ CheckStartFail
    \/ CheckStopOk
    \/ CheckStopFail
    \/ ScanStartOk
    \/ ScanStartFail
    \/ WaitReturns
    \/ WaitRaises
    \/ ScanStopOk
    \/ ScanStopFail
    \/ \E addr \in Addrs, now \in Times : Drop(addr, now)
    \/ \E addr \in Addrs, now \in Times, name \in Names : AcceptOther(addr, now, name)
    \/ \E addr \in Addrs, now \in Times, name \in Names, mdata \in MDatas :
          AcceptBand(addr, now, name, mdata)
    \/ \E outcome \in Outcomes : LoopStep(outcome)

Spec == Init /\ [][Next]_vars

\* ------------------------------------------- the run without failures
\* The run in which every call into the radio subsystem returns normally
\* and no exception is raised into main(), with the scheduling of asyncio:
\*  - a call that is awaited returns (Boot .. ScanStopOk);
\*  - the ready queue of the event loop is first in, first out, so the
\*    wake-up of main() is run even if advertisements keep arriving: strong
\*    fairness, since every callback in progress disables it for a while;
\*  - requests.get returns, so the loop of the handler goes on.
NextLive ==
    \/ Boot
    \/ Shutdown
    \/ CheckStartOk
    \/ CheckStopOk
    \/ ScanStartOk
    \/ WaitReturns
    \/ ScanStopOk
    \/ \E addr \in Addrs, now \in Times : Drop(addr, now)
    \/ \E addr \in Addrs, now \in Times, name \in Names : AcceptOther(addr, now, name)
    \/ \E addr \in Addrs, now \in Times, name \in Names, mdata \in MDatas :
          AcceptBand(addr, now, name, mdata)
    \/ \E outcome \in Outcomes : LoopStep(outcome)

Fairness ==
    /\ WF_vars(Boot)
    /\ WF_vars(CheckStartOk)
    /\ WF_vars(CheckStopOk)
    /\ WF_vars(ScanStartOk)
    /\ SF_vars(WaitReturns)
    /\ SF_vars(ScanStopOk)
    /\ WF_vars(\E outcome \in Outcomes : LoopStep(outcome))

SpecLive == Init /\ [][NextLive]_vars /\ Fairness

\* --------------------------------------------------------- export.py
\* Times of the export script are counted in half seconds since the epoch;
\* a timestamp text of SQLite or of strftime has whole seconds only.

\* HOURS hours, in half seconds
WindowLength == HOURS * 60 * 60 * 2

\* the instant HOURS hours before the earliest run of the script
Boundary == WindowLength

\* datetime.utcnow() of the run: on a whole second or half a second after it
Nows == { 2 * WindowLength + d : d \in 0..3 }

\* the created_at values of the rows: around the low end of the window
Stamps == { Boundary + d : d \in (0 - MaxSkew)..MaxSkew }

BpmValues == {60, 72}

Rows == [ bpm : BpmValues, created_at : Stamps ]

Tables == UNION { [1..n -> Rows] : n \in 0..MaxRows }

\* export.py:11  strftime('%Y-%m-%d %H:%M:%S'), and export.py:19 datetime(..):
\* the text has no fraction, the time is cut to its whole second (the result
\* is again in half seconds)
ToSecond(t) == (t \div 2) * 2

\* export.py:17, 25  int(strftime('%s', created_at)): whole seconds since the epoch
UnixSeconds(t) == t \div 2

\* export.py:10-11  since_time_str
SinceTime(now) == ToSecond(now - WindowLength)

\* mutant: the comparison of the WHERE clause is strict
SelectsStrict(created_at, since) == ToSecond(created_at) > ToSecond(since)

\* export.py:19  WHERE datetime(created_at) >= datetime(?)
Selects(created_at, since) == ToSecond(created_at) >= ToSecond(since)

\* export.py:16-23  the orders in which the query may return the selected
\* rows: ascending created_at, rows of equal created_at in any order
Fetches(table, since) ==
    LET sel == { i \in 1..Len(table) : Selects(table[i].created_at, since) }
        n   == Cardinality(sel)
    IN  { f \in [1..n -> sel] :
            /\ \A j, k \in 1..n : j # k => f[j] # f[k]
            /\ \A j, k \in 1..n : j < k => table[f[j]].created_at <= table[f[k]].created_at }

\* export.py:25  one object per row
Result(row) == [ time |-> UnixSeconds(row.created_at), bpm |-> row.bpm ]

\* the listener's state, untouched by the script
listener == << ctl, pipeline >>

\* the script is about to run on some table at some time
InitExport ==
    /\ pc = "boot"
    /\ stop_scanning = FALSE
    /\ nsignals = 0
    /\ stop_in = "none"
    /\ probe = "Unstarted"
    /\ session = "Unstarted"
    /\ nstops = 0
    /\ pending = FALSE
    /\ err = "none"
    /\ exit_code = -1
    /\ last_seen = << >>
    /\ cb_pc = "idle"
    /\ todo = << >>
    /\ ev = NoEvent
    /\ samples = << >>
    /\ logs = << >>
    /\ requests = << >>
    /\ heart_rate \in Tables
    /\ utcnow \in Nows
    /\ results = << >>
    /\ export_pc = "ready"

\* export.py:10-31  one run of the script
Export ==
    /\ export_pc = "ready"
    /\ \E f \in Fetches(heart_rate, SinceTime(utcnow)) :
          results' = [ j \in DOMAIN f |-> Result(heart_rate[f[j]]) ]
    /\ export_pc' = "done"
    /\ UNCHANGED << heart_rate, utcnow >>
    /\ UNCHANGED listener

NextExport == Export

SpecExport == InitExport /\ [][NextExport]_vars

\* ------------------------------------------------------------ claims
\* a step that takes a new event into handle_advertisement
Delivered == ev' # ev

\* the bpm values of the requests issued for the event
Bpms(reqs) == [i \in 1..Len(reqs) |-> reqs[i].bpm]

Positive(x) == x > 0
LongEnough(v) == Len(v) >= 4

\* the bytes at offset 3 of the values of at least 4 bytes, in order
ByteThree(mdata) ==
    LET long == SelectSeq(mdata, LongEnough)
    IN  [i \in 1..Len(long) |-> long[i][3 + 1]]

\* C1: every event is accepted if and only if its source has no ledger entry
\* or its timestamp is at least one second after the entry; in particular the
\* first event of a source is accepted whatever its timestamp.
C1_ArrivalRule ==
    [][ Delivered =>
          ( ev'.accepted <=>
              \/ ev'.addr \notin DOMAIN last_seen
              \/ ev'.t - last_seen[ev'.addr] >= Window ) ]_vars

\* C2: handling an event of one source never changes the ledger entry of
\* another source.  (The part of C2 that the code keeps.)
C2_Frame ==
    [][ \A b \in Addrs :
          (Delivered /\ ev'.addr # b) =>
             /\ (b \in DOMAIN last_seen') = (b \in DOMAIN last_seen)
             /\ (b \in DOMAIN last_seen => last_seen'[b] = last_seen[b]) ]_vars

\* C2: two events with distinct sources and the same timestamp, neither
\* source having a ledger entry, are both accepted.
C2_SameInstantBothAccepted ==
    [][ ( /\ ev.addr \in Addrs
          /\ ev'.addr \in Addrs
          /\ ev'.addr # ev.addr
          /\ ev'.t = ev.t
          /\ last_seen = << >> )
        => (ev.accepted /\ ev'.accepted) ]_vars

\* C3: the requests issued for an event are exactly one per decoded sample
\* of value 1..255, in order and carrying that value, and none for a sample of
\* value 0, whatever the outcomes; the requests grow only by the one request
\* of the sample being decoded.
C3_OneAttemptPerSample ==
    /\ [](Bpms(requests) = SelectSeq(samples, Positive))
    /\ [][ \/ requests' = requests
           \/ requests' = << >>
           \/ /\ cb_pc = "loop"
              /\ Len(samples') = Len(samples) + 1
              /\ Len(requests') = Len(requests) + 1 ]_vars

\* a sample 0 and a sample 255 were decoded; only the second was sent, and failed
C3_Witness ==
    /\ cb_pc = "idle"
    /\ samples = <<0, 255>>
    /\ Len(requests) = 1
    /\ requests[1].bpm = 255
    /\ requests[1].outcome # "200"

\* C4: once an accepted event with a matching name is handled, its samples
\* are the bytes at offset 3 of its values of at least 4 bytes; an event
\* whose name is absent or does not match, or without manufacturer data,
\* gives no sample.
C4_DecoderResult ==
    cb_pc = "idle" =>
       /\ (ev.accepted /\ Contains(TargetName, NameOrEmpty(ev.name)))
             => samples = ByteThree(ev.mdata)
       /\ (~ev.accepted \/ ~ev.name.present \/ ~Contains(TargetName, ev.name.words)
             \/ ev.mdata = << >>)
             => (samples = << >> /\ requests = << >>)

\* a 3 byte value gave nothing and a 4 byte value gave its byte at offset 3
C4_Witness ==
    /\ cb_pc = "idle"
    /\ ev.accepted
    /\ ev.mdata = << <<1, 2, 72>>, <<1, 2, 3, 72>> >>
    /\ samples = <<72>>

C7_EventErrorsAreLocal ==
    /\ [][(Delivered \/ cb_pc = "loop")
            => UNCHANGED << pc, session, probe, nstops, pending, err, exit_code >>]_vars
    /\ []((LastFailed /\ cb_pc = "idle" /\ pc = "wait")
            => (session = "Active" /\ exit_code = -1 /\ CanDeliver))

\* an event taken after a failed one was accepted and forwarded with success
C7_Witness ==
    /\ ev.after_failure
    /\ ev.accepted
    /\ cb_pc = "idle"
    /\ Len(requests) = 1
    /\ requests[1].outcome = "200"
    /\ session = "Active"
    /\ pc = "wait"

\* C8: the stop flag once set stays set; a signal that finds it set changes
\* nothing of the program's state; the scanner is stopped at most once, and
\* exactly once in a run that ends without failure, with exit status 0
\* whatever the number of signals.
C8_ShutdownIdempotent ==
    /\ [][stop_scanning => stop_scanning']_vars
    /\ [][(stop_scanning /\ nsignals' # nsignals)
            => UNCHANGED << pc, stop_scanning, stop_in, probe, session, nstops, pending,
                            err, exit_code, last_seen, cb_pc, todo, ev, samples, logs, requests >>]_vars
    /\ [](nstops <= 1)
    /\ []((pc = "exited" /\ err = "none") => (nstops = 1 /\ exit_code = 0 /\ stop_scanning))

\* two signals, the run ended cleanly with one stop of the scanner
C8_Witness == nsignals >= 2 /\ pc = "exited" /\ nstops = 1 /\ exit_code = 0

\* a failure of the radio subsystem ended the run
Failed == err \in {"unavailable", "start_failed", "fatal", "stop_failed"}

\* C9 (as claimed): the exit status is 0 exactly on a clean shutdown and
\* non-zero after a failure of the radio subsystem, and after a failure while
\* Active the session is Stopped before the exit.
C9_ExitStatus ==
    pc = "exited" =>
       /\ exit_code = 0 <=> (stop_scanning /\ session = "Stopped" /\ err = "none")
       /\ Failed => exit_code = 1
       /\ err \in {"fatal", "stop_failed"} => session = "Stopped"

\* C9 (amended): as claimed, except that the session is Stopped before the
\* non-zero exit only when scanner.stop() returns; when scanner.stop() itself
\* raises, the process exits non-zero with the session not stopped.
C9_ExitStatusAmended ==
    pc = "exited" =>
       /\ exit_code = 0 <=> (stop_scanning /\ session = "Stopped" /\ err = "none")
       /\ Failed => exit_code = 1
       /\ err = "fatal" => (session = "Stopped" /\ nstops = 1)
       /\ err = "stop_failed" => (session = "Active" /\ nstops = 0)

\* an exception raised while Active: the session was stopped, the exit status is 1
C9_Witness == pc = "exited" /\ err = "fatal" /\ session = "Stopped" /\ exit_code = 1

\* a receiving session is started by this step
Starts(before, after) == before # "Active" /\ after = "Active"

\* the only moves of a receiving session
Lifecycle(before, after) ==
    \/ after = before
    \/ before = "Unstarted" /\ after = "Active"
    \/ before = "Active" /\ after = "Stopped"

\* C10 (as claimed): every receiving session only moves Unstarted -> Active
\* -> Stopped, no receiving session is started after one has been stopped,
\* and at most one is Active.
C10_Lifecycle ==
    /\ [][Lifecycle(session, session') /\ Lifecycle(probe, probe')]_vars
    /\ [][(session = "Stopped" \/ probe = "Stopped")
            => ~(Starts(session, session') \/ Starts(probe, probe'))]_vars
    /\ [](~(session = "Active" /\ probe = "Active"))

\* C10 (amended): the scan session and the probe session of the availability
\* check each only move Unstarted -> Active -> Stopped, neither is started
\* again, and at most one is Active; but the scan session is started after
\* the probe session has been stopped, and only then.
C10_LifecycleAmended ==
    /\ [][Lifecycle(session, session') /\ Lifecycle(probe, probe')]_vars
    /\ [][session = "Stopped" => ~(Starts(session, session') \/ Starts(probe, probe'))]_vars
    /\ [](~(session = "Active" /\ probe = "Active"))
    /\ [](session # "Unstarted" => probe = "Stopped")

\* both sessions have run and are stopped
C10_Witness == probe = "Stopped" /\ session = "Stopped" /\ pc = "exited"

\* the values of the event that the loop has already visited
Visited == SubSeq(ev.mdata, 1, Len(ev.mdata) - Len(todo))

\* C11: the loop over the values of an accepted event with a matching name
\* has no early exit: at any moment the values still to visit are the rest of
\* the event's values, every visited value of at least 4 bytes has given a
\* sample and every non-zero one of these a request, whatever came before it
\* (a short value, a zero, a failed request); the handler is left only when
\* no value remains.
C11_NoEarlyExit ==
    /\ Len(todo) <= Len(ev.mdata)
    /\ todo = SubSeq(ev.mdata, Len(ev.mdata) - Len(todo) + 1, Len(ev.mdata))
    /\ samples = ByteThree(Visited)
    /\ Len(samples) = Cardinality({i \in 1..Len(Visited) : Len(Visited[i]) >= MinPayloadLen})
    /\ Bpms(requests) = SelectSeq(ByteThree(Visited), Positive)
    /\ (cb_pc = "idle") <=> (todo = << >>)

\* a value with a zero at offset 3 came first; the value after it was still
\* decoded and sent
C11_Witness ==
    /\ cb_pc = "idle"
    /\ ev.mdata = << <<1, 2, 3, 0>>, <<0, 0, 0, 255>> >>
    /\ Len(samples) = 2
    /\ Bpms(requests) = <<255>>
    /\ requests[1].outcome = "200"

\* the ledger entry of a source, -1 for a source without entry (no clock
\* value of the model is negative)
Entry(seen, a) == IF a \in DOMAIN seen THEN seen[a] ELSE -1

\* C12: the ledger entry of a source changes only in a step that accepts an
\* event of that source, and becomes the timestamp of that event; a step that
\* suppresses an event leaves the whole ledger as it was, and the suppressed
\* event is not decoded, gives no request and prints nothing.
C12_LedgerDiscipline ==
    /\ [][ \A a \in Addrs :
              Entry(last_seen', a) # Entry(last_seen, a) =>
                 /\ Delivered
                 /\ ev'.accepted
                 /\ ev'.addr = a
                 /\ last_seen'[a] = ev'.t ]_vars
    /\ [][ (Delivered /\ ~ev'.accepted) =>
              /\ last_seen' = last_seen
              /\ cb_pc' = "idle" ]_vars
    /\ [](~ev.accepted =>
              /\ todo = << >>
              /\ samples = << >>
              /\ requests = << >>
              /\ logs = << >>)

\* an event of A was suppressed while the ledger holds entries of A and B
C12_Witness ==
    /\ ev.addr = "A"
    /\ ~ev.accepted
    /\ DOMAIN last_seen = {"A", "B"}
    /\ ev.t # last_seen["A"]
    /\ logs = << >>

\* the number of rows of the table, among those that satisfy InWindow, that
\* give the object r
RowsGiving(r, InWindow(_)) ==
    Cardinality({ i \in 1..Len(heart_rate) :
                    InWindow(heart_rate[i].created_at) /\ Result(heart_rate[i]) = r })

\* the number of times the object r stands in the output
TimesWritten(r) == Cardinality({ j \in 1..Len(results) : results[j] = r })

Objects == { Result(row) : row \in Rows }

\* created_at >= now - HOURS
InExactWindow(created_at) == created_at >= utcnow - WindowLength

\* created_at, cut to its whole second, >= now - HOURS cut to its whole second
InCutWindow(created_at) == ToSecond(created_at) >= ToSecond(utcnow - WindowLength)

Ascending == \A j, k \in 1..Len(results) : j < k => results[j].time <= results[k].time

\* C13 (as claimed): one run of the export script writes exactly the rows
\* with created_at >= now - HOURS, each as {time, bpm} with the unix seconds
\* of created_at, in ascending order of time, and leaves the table as it was.
C13_ExportSnapshot ==
    /\ [][heart_rate' = heart_rate]_vars
    /\ [](export_pc = "done" =>
             /\ \A r \in Objects : TimesWritten(r) = RowsGiving(r, InExactWindow)
             /\ Ascending)

\* C13 (amended): one run of the export script writes exactly the rows whose
\* created_at, cut to its whole second, is at or after now - HOURS cut to
\* its whole second, each as {time, bpm} with the unix seconds of created_at,
\* in ascending order of time, and leaves the table as it was.
C13_ExportSnapshotAmended ==
    /\ [][heart_rate' = heart_rate]_vars
    /\ [](export_pc = "done" =>
             /\ \A r \in Objects : TimesWritten(r) = RowsGiving(r, InCutWindow)
             /\ Len(results) = Cardinality({ i \in 1..Len(heart_rate) :
                                              InCutWindow(heart_rate[i].created_at) })
             /\ Ascending)

\* the script ran half a second after a whole second: of three rows, the one
\* before the window was left out, and the one less than a second older
\* than now - HOURS was written
C13_Witness ==
    /\ export_pc = "done"
    /\ utcnow = 2 * WindowLength + 1
    /\ Len(heart_rate) = 3
    /\ Len(results) = 2
    /\ \E i \in 1..3 : heart_rate[i].created_at < Boundary
    /\ \E i \in 1..3 : heart_rate[i].created_at = Boundary
    /\ \E j \in 1..2 : results[j].time = UnixSeconds(Boundary)
    /\ results[1].time < results[2].time

\* C14: the session of the scanner is released (Stopped) only when no event
\* is inside handle_advertisement: an event taken in before runs to its end
\* first, the release itself touches nothing of the pipeline, and once the
\* session is Stopped no event is taken in and no pipeline state changes.
C14_StopOrdering ==
    /\ [](session = "Stopped" => (cb_pc = "idle" /\ todo = << >>))
    /\ [][ (session # "Stopped" /\ session' = "Stopped") =>
              /\ session = "Active"
              /\ pc = "stop"
              /\ cb_pc = "idle"
              /\ UNCHANGED pipeline ]_vars
    /\ [][ session = "Stopped" => UNCHANGED pipeline ]_vars

\* main() is in its finally block, awaiting scanner.stop(), while an event
\* taken in before is still in the loop over its values
C14_Witness ==
    /\ pc = "stop"
    /\ session = "Active"
    /\ cb_pc = "loop"
    /\ Len(todo) = 1
    /\ Len(requests) = 1

\* C15: while an event is inside handle_advertisement (up to the end of its
\* last request, whatever the outcome) no other event is taken in, the
\* ledger is neither read for nor written by another event, and main() does
\* not move: neither the stop sequence nor any other step of it runs.  A
\* step inside the handler visits exactly one value of the event.
C15_NoOverlap ==
    /\ [][ Delivered => cb_pc = "idle" ]_vars
    /\ [][ cb_pc = "loop" =>
              /\ ev' = ev
              /\ last_seen' = last_seen
              /\ UNCHANGED << pc, probe, session, nstops, pending, err, exit_code >>
              /\ \/ todo' = Tail(todo)
                 \/ UNCHANGED pipeline ]_vars

\* a signal has set the flag while a request of the event in the loop was
\* failing: main() is still at its wait
C15_Witness ==
    /\ cb_pc = "loop"
    /\ pc = "wait"
    /\ stop_scanning
    /\ Len(requests) = 1
    /\ requests[1].outcome = "RequestException"

\* C16: in a run where the calls into the radio subsystem and the requests
\* return, a stop request is never lost, whether the signal comes during the
\* availability check, before the scanner has started, or while the session
\* is Active: main() gets to its stop sequence, the session becomes Stopped
\* and the process exits, with status 0.
C16_ShutdownLiveness ==
    /\ (nsignals > 0) ~> stop_scanning
    /\ (nsignals > 0) ~> (pc = "stop" \/ pc = "exited")
    /\ (nsignals > 0) ~> (session = "Stopped" /\ pc = "exited" /\ exit_code = 0)

\* the signal came during the availability check; the scanner was started
\* and stopped all the same and the process has exited
C16_Witness ==
    /\ stop_in = "Unstarted"
    /\ probe = "Stopped"
    /\ session = "Stopped"
    /\ pc = "exited"
    /\ exit_code = 0

\* C17: an Active session is left only for a stop request or an error: main()
\* leaves its wait only with the flag set or an exception raised into it,
\* whenever it is past the wait with the session still Active one of the two
\* has happened, the session stops being Active only in the stop sequence,
\* and no event and no outcome of a request moves main() or the session.
C17_ActivePersists ==
    /\ [][ (pc = "wait" /\ pc' # "wait") => (stop_scanning \/ pending') ]_vars
    /\ []((session = "Active" /\ pc # "wait") => (stop_scanning \/ pending))
    /\ [][ (session = "Active" /\ session' # "Active") =>
              (pc = "stop" /\ (stop_scanning \/ pending)) ]_vars
    /\ [][ (Delivered \/ cb_pc = "loop") => (session' = session /\ pc' = pc) ]_vars

\* events were handled, the last of them with two requests, one failed, after
\* an earlier failure; no signal and no error: the session is still Active
C17_Witness ==
    /\ session = "Active"
    /\ pc = "wait"
    /\ nsignals = 0
    /\ ~pending
    /\ cb_pc = "idle"
    /\ ev.after_failure
    /\ Len(requests) = 2
    /\ requests[2].outcome = "500"

\* C18: every request carries a bpm from 1 to 255 that is the byte at offset
\* 3 of a value of at least 4 bytes of the event being handled, an accepted
\* event whose name is present and contains "Xiaomi Smart Band"; a request is
\* issued only while the session is Active and the process runs.
C18_Provenance ==
    /\ [](\A i \in 1..Len(requests) :
             /\ requests[i].bpm \in 1..255
             /\ ev.accepted
             /\ ev.name.present
             /\ Contains(TargetName, ev.name.words)
             /\ \E j \in 1..Len(ev.mdata) :
                   /\ Len(ev.mdata[j]) >= 4
                   /\ ev.mdata[j][3 + 1] = requests[i].bpm)
    /\ [][ (requests' # requests /\ requests' # << >>) =>
              /\ session = "Active"
              /\ pc # "exited"
              /\ cb_pc = "loop"
              /\ Len(requests') = Len(requests) + 1 ]_vars

\* the largest byte, 255, was sent from a 4 byte value of a matching event
C18_Witness ==
    /\ ev.accepted
    /\ ev.mdata = << <<0, 0, 0, 255>> >>
    /\ Bpms(requests) = <<255>>
    /\ session = "Active"

\* C19: the timestamp of an accepted event is in the ledger before its name
\* and payload are looked at, whatever they are; so after an accepted event
\* that gave no request (other name, no data, short or zero values), an event
\* of the same source less than one second later is suppressed: it is not
\* decoded, gives no request, and the ledger keeps the earlier timestamp.
C19_WindowConsumed ==
    /\ [](ev.accepted => (ev.addr \in DOMAIN last_seen /\ last_seen[ev.addr] = ev.t))
    /\ [][ ( /\ Delivered
             /\ ev.accepted
             /\ requests = << >>
             /\ ev'.addr = ev.addr
             /\ ev'.t - ev.t < Window ) =>
              /\ ~ev'.accepted
              /\ samples' = << >>
              /\ requests' = << >>
              /\ cb_pc' = "idle"
              /\ last_seen' = last_seen ]_vars

\* an event came half a second after an accepted event of its source that
\* had given no request, and was suppressed
C19_Witness ==
    /\ ~ev.accepted
    /\ ev.after_quiet
    /\ ev.addr \in DOMAIN last_seen
    /\ ev.t = last_seen[ev.addr] + 1
    /\ requests = << >>

\* C20: whatever clock values the events carry, also values going backwards,
\* the ledger entry of a source is never removed and never decreases; when it
\* changes it grows by at least one second, so two events of a source
\* accepted one after the other lie at least one second apart; an event with
\* a clock value earlier than the entry of its source is suppressed and the
\* ledger stays as it was.
C20_LedgerMonotone ==
    /\ [][ \A a \in DOMAIN last_seen :
              /\ a \in DOMAIN last_seen'
              /\ last_seen'[a] >= last_seen[a]
              /\ last_seen'[a] # last_seen[a] => last_seen'[a] - last_seen[a] >= Window ]_vars
    /\ [][ ( /\ Delivered
             /\ ev'.addr \in DOMAIN last_seen
             /\ ev'.t < last_seen[ev'.addr] ) =>
              /\ ~ev'.accepted
              /\ last_seen' = last_seen ]_vars

\* the clock went back by a second or more: the event was suppressed
C20_Witness ==
    /\ ~ev.accepted
    /\ ev.addr \in DOMAIN last_seen
    /\ ev.t + Window <= last_seen[ev.addr]
    /\ cb_pc = "idle"

====
